---- MODULE Spec2Model ----
(***************************************************************************)
(* A model of fnss/topologies/simplemodels.py: the seven deterministic     *)
(* topology generators ring, line, star, full_mesh, k_ary_tree, dumbbell   *)
(* and chord.  One behaviour is one call of one generator: Init chooses    *)
(* the generator and its arguments, the actions are the statements of the  *)
(* generator's body in program order.  The graph G being built is held as  *)
(* networkx holds it: a node set, an adjacency relation (both directions   *)
(* of an undirected edge), and attribute maps of the graph, its nodes and  *)
(* its edges.                                                              *)
(***************************************************************************)
EXTENDS Integers, FiniteSets, Sequences, TLC

VARIABLES
    fn,       \* the generator called
    args,     \* its actual parameters, a tuple of argument values
    pc,       \* the position in the generator's body
    outcome,  \* "running", "returned", or the exception raised
    created,  \* the class of G: "none", "Topology" or "DirectedTopology"
    nodes,    \* the nodes of G
    edges,    \* the adjacency of G, as pairs <<a, b>>
    nattr,    \* G.node: node -> attribute map
    eattr,    \* edge data: pair -> attribute map
    name,     \* G.name
    graph,    \* G.graph, the graph-level attribute map
    v,        \* loop variable v
    u,        \* loop variable u (chord)
    depth,    \* loop variable depth (k_ary_tree)
    cnt       \* position of the anonymous inner loop of k_ary_tree

vars == <<fn, args, pc, outcome, created, nodes, edges, nattr, eattr, name,
          graph, v, u, depth, cnt>>

----------------------------------------------------------------------------
(* Bounds of the argument values explored. *)
MaxN == 5
MaxK == 3
MaxH == 3
MaxM1 == 3
MaxM2 == 3
MaxM == 3

----------------------------------------------------------------------------
(* Values and arithmetic. *)

\* b ** e for e >= 0
RECURSIVE Pow(_, _)
Pow(b, e) == IF e <= 0 THEN 1 ELSE b * Pow(b, e - 1)

\* An argument value: an int val, or the float val + 0.5 (not an int).
ArgSpace(hi) == [kind : {"int", "float"}, val : 0..hi]

\* isinstance(a, int)
isinstance_int(a) == a.kind = "int"

\* "%d" % x for an int x
Fmt(x) == ToString(x)

\* an empty attribute dictionary
EmptyMap == [key \in {} |-> key]

Generators ==
    {"ring", "line", "star", "full_mesh", "k_ary_tree", "dumbbell", "chord"}

NGenerators == {"ring", "line", "star", "full_mesh"}

ArgsOf(f) ==
    CASE f \in NGenerators -> {<<a>> : a \in ArgSpace(MaxN)}
      [] f = "k_ary_tree"  -> {<<a, b>> : a \in ArgSpace(MaxK), b \in ArgSpace(MaxH)}
      [] f = "dumbbell"    -> {<<a, b>> : a \in ArgSpace(MaxM1), b \in ArgSpace(MaxM2)}
      [] f = "chord"       -> {<<a, b>> : a \in ArgSpace(MaxM),
                                          b \in ArgSpace(Pow(2, MaxM))}

\* The parameters, by the names the generators give them.
n == args[1].val
k == args[1].val
h == args[2].val
m1 == args[1].val
m2 == args[2].val
m == args[1].val
r == args[2].val

----------------------------------------------------------------------------
(* The graph library's part: networkx's builders and Graph methods. *)

\* both adjacency entries of the undirected edge a - b
Sym(a, b) == {<<a, b>>, <<b, a>>}

\* nx.path_graph(c): nodes 0..c-1, edges i - i+1
path_graph_nodes(c) == 0..(c - 1)
path_graph_edges(c) == UNION {Sym(i, i + 1) : i \in 0..(c - 2)}

\* nx.star_graph(c): nodes 0..c, edges 0 - i
star_graph_nodes(c) == 0..c
star_graph_edges(c) == UNION {Sym(0, i) : i \in 1..c}

\* nx.complete_graph(c): nodes 0..c-1, every pair of distinct nodes
complete_graph_nodes(c) == 0..(c - 1)
complete_graph_edges(c) ==
    {e \in (0..(c - 1)) \X (0..(c - 1)) : e[1] # e[2]}

\* nx.balanced_tree(b, d): (b^(d+1) - 1) / (b - 1) nodes numbered breadth
\* first, node i > 0 joined to its parent (i - 1) div b
balanced_tree_size(b, d) == (Pow(b, d + 1) - 1) \div (b - 1)
balanced_tree_nodes(b, d) == 0..(balanced_tree_size(b, d) - 1)
balanced_tree_edges(b, d) ==
    UNION {Sym(i, (i - 1) \div b) : i \in 1..(balanced_tree_size(b, d) - 1)}

\* G = Topology(g): a graph with the nodes and edges of g, no attributes
Construct(cls, ns, es) ==
    /\ created' = cls
    /\ nodes' = ns
    /\ edges' = es
    /\ nattr' = [x \in ns |-> EmptyMap]
    /\ eattr' = [e \in es |-> EmptyMap]

\* G.add_node(x, **attr): the node is created if absent, attr is merged in
add_node(x, attr) ==
    /\ nodes' = nodes \cup {x}
    /\ nattr' = [y \in nodes \cup {x} |->
                    IF y = x
                    THEN attr @@ (IF x \in nodes THEN nattr[x] ELSE EmptyMap)
                    ELSE nattr[y]]
    /\ UNCHANGED <<edges, eattr>>

\* G.add_edge(a, b, **attr): absent end nodes are created, the edge is
\* created if absent (in both directions unless G is directed), attr is
\* merged into its data
add_edge(a, b, attr) ==
    LET new == IF created = "DirectedTopology" THEN {<<a, b>>} ELSE Sym(a, b)
    IN  /\ nodes' = nodes \cup {a, b}
        /\ nattr' = [y \in nodes \cup {a, b} |->
                        IF y \in nodes THEN nattr[y] ELSE EmptyMap]
        /\ edges' = edges \cup new
        /\ eattr' = [e \in edges \cup new |->
                        IF e \in new
                        THEN attr @@ (IF e \in edges THEN eattr[e] ELSE EmptyMap)
                        ELSE eattr[e]]

\* G.node[x][key] = val for each key of attr, then continue at next with
\* outcome out; G.node[x] of an absent node raises KeyError
node_write(x, attr, next, out) ==
    IF x \in nodes
    THEN /\ nattr' = [nattr EXCEPT ![x] = attr @@ @]
         /\ pc' = next
         /\ outcome' = out
    ELSE /\ nattr' = nattr
         /\ pc' = "done"
         /\ outcome' = "KeyError"

----------------------------------------------------------------------------
(* The state at the call. *)
Init ==
    /\ fn \in Generators
    /\ args \in ArgsOf(fn)
    /\ pc = "entry"
    /\ outcome = "running"
    /\ created = "none"
    /\ nodes = {}
    /\ edges = {}
    /\ nattr = EmptyMap
    /\ eattr = EmptyMap
    /\ name = ""
    /\ graph = EmptyMap
    /\ v = 0
    /\ u = 0
    /\ depth = 0
    /\ cnt = 0

----------------------------------------------------------------------------
(* Argument validation: "ok", or the exception raised. *)

\* ring, line, star, full_mesh
n_check(a) ==
    IF ~isinstance_int(a) THEN "TypeError"
    ELSE IF a.val < 1 THEN "ValueError"
    ELSE "ok"

k_ary_tree_check(a, b) ==
    IF ~isinstance_int(a) \/ ~isinstance_int(b) THEN "TypeError"
    ELSE IF a.val <= 1 THEN "ValueError"
    ELSE IF b.val < 1 THEN "ValueError"
    ELSE "ok"

dumbbell_check(a, b) ==
    IF ~isinstance_int(a) \/ ~isinstance_int(b) THEN "TypeError"
    ELSE IF a.val < 2 THEN "ValueError"
    ELSE IF b.val < 1 THEN "ValueError"
    ELSE "ok"

chord_check_loose(a, b) ==
    IF ~isinstance_int(a) \/ ~isinstance_int(b) THEN "TypeError"
    ELSE IF a.val < 2 THEN "ValueError"
    ELSE IF b.val < 1 \/ b.val > Pow(2, a.val) THEN "ValueError"
    ELSE "ok"

chord_check(a, b) ==
    IF ~isinstance_int(a) \/ ~isinstance_int(b) THEN "TypeError"
    ELSE IF a.val < 2 THEN "ValueError"
    ELSE IF b.val < 1 \/ b.val > Pow(2, a.val) - 1 THEN "ValueError"
    ELSE "ok"

check_args ==
    CASE fn \in NGenerators -> n_check(args[1])
      [] fn = "k_ary_tree"  -> k_ary_tree_check(args[1], args[2])
      [] fn = "dumbbell"    -> dumbbell_check(args[1], args[2])
      [] fn = "chord"       -> chord_check(args[1], args[2])

\* The checks at the head of every generator: raise, or go on to the body.
validate ==
    /\ pc = "entry"
    /\ IF check_args = "ok"
       THEN pc' = fn /\ UNCHANGED outcome
       ELSE pc' = "done" /\ outcome' = check_args
    /\ UNCHANGED <<fn, args, created, nodes, edges, nattr, eattr, name, graph,
                   v, u, depth, cnt>>

----------------------------------------------------------------------------
(* ring_topology(n) *)

\* the node joined to node 0 to close the cycle
ring_last_off(c) == c
ring_last(c) == c - 1

\* G = Topology(nx.path_graph(n))
ring_build ==
    /\ pc = "ring"
    /\ Construct("Topology", path_graph_nodes(n), path_graph_edges(n))
    /\ pc' = "ring_close"
    /\ UNCHANGED <<fn, args, outcome, name, graph, v, u, depth, cnt>>

\* G.add_edge(n-1, 0)
ring_close ==
    /\ pc = "ring_close"
    /\ add_edge(ring_last(n), 0, EmptyMap)
    /\ pc' = "ring_meta"
    /\ UNCHANGED <<fn, args, outcome, created, name, graph, v, u, depth, cnt>>

\* G.name = ...; G.graph['type'] = 'ring'; return G
ring_meta ==
    /\ pc = "ring_meta"
    /\ name' = "ring_topology(" \o Fmt(n) \o ")"
    /\ graph' = ("type" :> "ring") @@ graph
    /\ pc' = "done"
    /\ outcome' = "returned"
    /\ UNCHANGED <<fn, args, created, nodes, edges, nattr, eattr, v, u, depth, cnt>>

----------------------------------------------------------------------------
(* line_topology(n) *)

line_build ==
    /\ pc = "line"
    /\ Construct("Topology", path_graph_nodes(n), path_graph_edges(n))
    /\ pc' = "line_meta"
    /\ UNCHANGED <<fn, args, outcome, name, graph, v, u, depth, cnt>>

line_meta ==
    /\ pc = "line_meta"
    /\ name' = "line_topology(" \o Fmt(n) \o ")"
    /\ graph' = ("type" :> "line") @@ graph
    /\ pc' = "done"
    /\ outcome' = "returned"
    /\ UNCHANGED <<fn, args, created, nodes, edges, nattr, eattr, v, u, depth, cnt>>

----------------------------------------------------------------------------
(* full_mesh_topology(n) *)

full_mesh_build ==
    /\ pc = "full_mesh"
    /\ Construct("Topology", complete_graph_nodes(n), complete_graph_edges(n))
    /\ pc' = "full_mesh_meta"
    /\ UNCHANGED <<fn, args, outcome, name, graph, v, u, depth, cnt>>

full_mesh_meta ==
    /\ pc = "full_mesh_meta"
    /\ name' = "full_mesh_topology(" \o Fmt(n) \o ")"
    /\ graph' = ("type" :> "full_mesh") @@ graph
    /\ pc' = "done"
    /\ outcome' = "returned"
    /\ UNCHANGED <<fn, args, created, nodes, edges, nattr, eattr, v, u, depth, cnt>>

----------------------------------------------------------------------------
(* star_topology(n) *)

\* G = Topology(nx.star_graph(n)); G.name = ...; G.graph['type'] = 'star'
star_build ==
    /\ pc = "star"
    /\ Construct("Topology", star_graph_nodes(n), star_graph_edges(n))
    /\ name' = "star_topology(" \o Fmt(n) \o ")"
    /\ graph' = ("type" :> "star") @@ graph
    /\ pc' = "star_root"
    /\ UNCHANGED <<fn, args, outcome, v, u, depth, cnt>>

\* G.node[0]['type'] = 'root', and the loop's v starts at 1
star_root ==
    /\ pc = "star_root"
    /\ node_write(0, "type" :> "root", "star_leaf", outcome)
    /\ v' = 1
    /\ UNCHANGED <<fn, args, created, nodes, edges, eattr, name, graph, u, depth, cnt>>

\* for v in range(1, n + 1): G.node[v]['type'] = 'leaf'
star_leaf ==
    /\ pc = "star_leaf"
    /\ v < n + 1
    /\ node_write(v, "type" :> "leaf", "star_leaf", outcome)
    /\ v' = IF v \in nodes THEN v + 1 ELSE v
    /\ UNCHANGED <<fn, args, created, nodes, edges, eattr, name, graph, u, depth, cnt>>

\* return G
star_return ==
    /\ pc = "star_leaf"
    /\ ~(v < n + 1)
    /\ pc' = "done"
    /\ outcome' = "returned"
    /\ UNCHANGED <<fn, args, created, nodes, edges, nattr, eattr, name, graph,
                   v, u, depth, cnt>>

----------------------------------------------------------------------------
(* k_ary_tree_topology(k, h) *)

\* range(k**depth): the number of nodes labelled at a level
level_size_off(b, d) == Pow(b, d) + 1
level_size(b, d) == Pow(b, d)

\* 'leaf' if depth == h, else 'intermediate'
tree_role_off(d, hh) == IF d >= hh - 1 THEN "leaf" ELSE "intermediate"
tree_role(d, hh) == IF d = hh THEN "leaf" ELSE "intermediate"

\* G = Topology(nx.balanced_tree(k, h)); G.name = ...; G.graph[...] = ...
tree_build ==
    /\ pc = "k_ary_tree"
    /\ Construct("Topology", balanced_tree_nodes(k, h), balanced_tree_edges(k, h))
    /\ name' = "k_ary_tree_topology(" \o Fmt(k) \o "," \o Fmt(h) \o ")"
    /\ graph' = ("h" :> h) @@ ("k" :> k) @@ ("type" :> "tree") @@ graph
    /\ pc' = "tree_root"
    /\ UNCHANGED <<fn, args, outcome, v, u, depth, cnt>>

\* G.node[0]['type'] = 'root'; G.node[0]['depth'] = 0; v = 1
tree_root ==
    /\ pc = "tree_root"
    /\ node_write(0, ("depth" :> 0) @@ ("type" :> "root"), "tree_sweep", outcome)
    /\ v' = 1
    /\ depth' = 1
    /\ cnt' = 0
    /\ UNCHANGED <<fn, args, created, nodes, edges, eattr, name, graph, u>>

\* one pass of the inner loop: label node v with the depth and its role
tree_sweep ==
    /\ pc = "tree_sweep"
    /\ depth < h + 1
    /\ node_write(v, ("type" :> tree_role(depth, h)) @@ ("depth" :> depth),
                  "tree_sweep", outcome)
    /\ IF v \in nodes
       THEN /\ v' = v + 1
            /\ IF cnt + 1 < level_size(k, depth)
               THEN cnt' = cnt + 1 /\ depth' = depth
               ELSE cnt' = 0 /\ depth' = depth + 1
       ELSE UNCHANGED <<v, cnt, depth>>
    /\ UNCHANGED <<fn, args, created, nodes, edges, eattr, name, graph, u>>

\* return G
tree_return ==
    /\ pc = "tree_sweep"
    /\ ~(depth < h + 1)
    /\ pc' = "done"
    /\ outcome' = "returned"
    /\ UNCHANGED <<fn, args, created, nodes, edges, nattr, eattr, name, graph,
                   v, u, depth, cnt>>

----------------------------------------------------------------------------
(* dumbbell_topology(m1, m2) *)

\* v + m1 + m2: the id of the v-th node of the right bell
right_id_off(x) == x + m1 + m2 - 1
right_id(x) == x + m1 + m2

\* the attributes of a path edge: type='core'
path_edge_attr_none == EmptyMap
path_edge_attr == "type" :> "core"

\* where the loop over range(m1, m1 + m2 - 1) starts, or what follows it
path_entry == IF m1 < m1 + m2 - 1 THEN "path_node" ELSE "last_core"

\* G = Topology(type='dumbbell'); G.name = ...; G.add_node(m1)
dumbbell_init ==
    /\ pc = "dumbbell"
    /\ created' = "Topology"
    /\ graph' = ("type" :> "dumbbell") @@ graph
    /\ name' = "dumbbell_topology(" \o Fmt(m1) \o "," \o Fmt(m2) \o ")"
    /\ add_node(m1, EmptyMap)
    /\ v' = 0
    /\ pc' = "left_node"
    /\ UNCHANGED <<fn, args, outcome, u, depth, cnt>>

\* G.add_node(v, type='left_bell')
dumbbell_left_node ==
    /\ pc = "left_node"
    /\ add_node(v, "type" :> "left_bell")
    /\ pc' = "left_edge"
    /\ UNCHANGED <<fn, args, outcome, created, name, graph, v, u, depth, cnt>>

\* G.add_edge(v, m1, type='left_bell'), and the loop goes on or ends
dumbbell_left_edge ==
    /\ pc = "left_edge"
    /\ add_edge(v, m1, "type" :> "left_bell")
    /\ IF v + 1 < m1
       THEN v' = v + 1 /\ pc' = "left_node"
       ELSE v' = 0 /\ pc' = "right_node"
    /\ UNCHANGED <<fn, args, outcome, created, name, graph, u, depth, cnt>>

\* G.add_node(v + m1 + m2, type='right_bell')
dumbbell_right_node ==
    /\ pc = "right_node"
    /\ add_node(right_id(v), "type" :> "right_bell")
    /\ pc' = "right_edge"
    /\ UNCHANGED <<fn, args, outcome, created, name, graph, v, u, depth, cnt>>

\* G.add_edge(v + m1 + m2, m1 + m2 - 1, type='right_bell')
dumbbell_right_edge ==
    /\ pc = "right_edge"
    /\ add_edge(right_id(v), m1 + m2 - 1, "type" :> "right_bell")
    /\ IF v + 1 < m1
       THEN v' = v + 1 /\ pc' = "right_node"
       ELSE v' = m1 /\ pc' = path_entry
    /\ UNCHANGED <<fn, args, outcome, created, name, graph, u, depth, cnt>>

\* G.node[v]['type'] = 'core'
dumbbell_path_node ==
    /\ pc = "path_node"
    /\ node_write(v, "type" :> "core", "path_edge", outcome)
    /\ UNCHANGED <<fn, args, created, nodes, edges, eattr, name, graph,
                   v, u, depth, cnt>>

\* G.add_edge(v, v + 1, type='core'), and the loop goes on or ends
dumbbell_path_edge ==
    /\ pc = "path_edge"
    /\ add_edge(v, v + 1, path_edge_attr)
    /\ v' = v + 1
    /\ pc' = IF v + 1 < m1 + m2 - 1 THEN "path_node" ELSE "last_core"
    /\ UNCHANGED <<fn, args, outcome, created, name, graph, u, depth, cnt>>

\* G.node[m1 + m2 - 1]['type'] = 'core'; return G
dumbbell_last_core ==
    /\ pc = "last_core"
    /\ node_write(m1 + m2 - 1, "type" :> "core", "done", "returned")
    /\ UNCHANGED <<fn, args, created, nodes, edges, eattr, name, graph,
                   v, u, depth, cnt>>

----------------------------------------------------------------------------
(* chord_topology(m, r) *)

\* n = 2**m
chord_n == Pow(2, m)

\* (v + 2**u) % n
finger_linear(x, b) == (x + 2 * b) % chord_n
finger(x, b) == (x + Pow(2, b)) % chord_n

\* the stop of range(m)
finger_stop_short == m - 1
finger_stop == m

\* the stop of range(v + 3, v + r + 1)
succ_stop_off(x) == x + r + 2
succ_stop(x) == x + r + 1

\* n = 2**m; G = DirectedTopology()
chord_init ==
    /\ pc = "chord"
    /\ created' = "DirectedTopology"
    /\ v' = 0
    /\ u' = 0
    /\ pc' = "chord_finger"
    /\ UNCHANGED <<fn, args, outcome, nodes, edges, nattr, eattr, name, graph,
                   depth, cnt>>

\* G.add_edge(v, (v + 2**u) % n), and the loops go on
chord_finger ==
    /\ pc = "chord_finger"
    /\ v < chord_n
    /\ add_edge(v, finger(v, u), EmptyMap)
    /\ IF u + 1 < finger_stop
       THEN u' = u + 1 /\ v' = v
       ELSE u' = 0 /\ v' = v + 1
    /\ UNCHANGED <<fn, args, pc, outcome, created, name, graph, depth, cnt>>

\* the finger loops are over: if r > 2 the successor loops start, else
\* return G
chord_finger_end ==
    /\ pc = "chord_finger"
    /\ ~(v < chord_n)
    /\ IF r > 2
       THEN /\ v' = 0
            /\ u' = 3
            /\ pc' = "chord_succ"
            /\ UNCHANGED outcome
       ELSE /\ pc' = "done"
            /\ outcome' = "returned"
            /\ UNCHANGED <<v, u>>
    /\ UNCHANGED <<fn, args, created, nodes, edges, nattr, eattr, name, graph,
                   depth, cnt>>

\* G.add_edge(v, u % n), and the loops go on
chord_succ ==
    /\ pc = "chord_succ"
    /\ v < chord_n
    /\ add_edge(v, u % chord_n, EmptyMap)
    /\ IF u + 1 < succ_stop(v)
       THEN u' = u + 1 /\ v' = v
       ELSE u' = v + 1 + 3 /\ v' = v + 1
    /\ UNCHANGED <<fn, args, pc, outcome, created, name, graph, depth, cnt>>

\* return G
chord_return ==
    /\ pc = "chord_succ"
    /\ ~(v < chord_n)
    /\ pc' = "done"
    /\ outcome' = "returned"
    /\ UNCHANGED <<fn, args, created, nodes, edges, nattr, eattr, name, graph,
                   v, u, depth, cnt>>

----------------------------------------------------------------------------
Next ==
    \/ validate
    \/ ring_build \/ ring_close \/ ring_meta
    \/ line_build \/ line_meta
    \/ full_mesh_build \/ full_mesh_meta
    \/ star_build \/ star_root \/ star_leaf \/ star_return
    \/ tree_build \/ tree_root \/ tree_sweep \/ tree_return
    \/ dumbbell_init \/ dumbbell_left_node \/ dumbbell_left_edge
    \/ dumbbell_right_node \/ dumbbell_right_edge
    \/ dumbbell_path_node \/ dumbbell_path_edge \/ dumbbell_last_core
    \/ chord_init \/ chord_finger \/ chord_finger_end
    \/ chord_succ \/ chord_return

Spec == Init /\ [][Next]_vars

----------------------------------------------------------------------------
(* The notions the properties are stated in. *)

\* generator f has returned its graph
Returned(f) == fn = f /\ outcome = "returned"

\* the nodes whose attribute key has value val
NodesWith(key, val) ==
    {x \in nodes : key \in DOMAIN nattr[x] /\ nattr[x][key] = val}

\* the adjacency entries whose attribute 'type' is t
EdgesTagged(t) ==
    {e \in edges : "type" \in DOMAIN eattr[e] /\ eattr[e]["type"] = t}

\* the successors of x in the adjacency es
Adj(es, x) == {y \in nodes : <<x, y>> \in es}

\* the degree of x as networkx counts it: a self-loop counts twice
Degree(x) ==
    Cardinality(Adj(edges, x)) + (IF <<x, x>> \in edges THEN 1 ELSE 0)

\* the number of edges of an undirected graph
NumEdges == Cardinality({e \in edges : e[1] <= e[2]})

\* the nodes reachable from the set S along es
RECURSIVE ReachVia(_, _)
ReachVia(es, S) ==
    LET T == S \cup UNION {Adj(es, x) : x \in S}
    IN  IF T = S THEN S ELSE ReachVia(es, T)

Connected == nodes # {} /\ \A x \in nodes : ReachVia(edges, {x}) = nodes

----------------------------------------------------------------------------
\* C1: when k_ary_tree_topology(k, h) returns, exactly one node is tagged
\* root and it has depth 0; for every d in 1..h exactly k^d nodes have
\* depth d; a node is tagged leaf iff its depth is h, and every other
\* non-root node is tagged intermediate.
C1_TreeLabels ==
    Returned("k_ary_tree") =>
        /\ Cardinality(NodesWith("type", "root")) = 1
        /\ NodesWith("type", "root") \subseteq NodesWith("depth", 0)
        /\ \A d \in 1..h : Cardinality(NodesWith("depth", d)) = Pow(k, d)
        /\ NodesWith("type", "leaf") = NodesWith("depth", h)
        /\ \A x \in nodes :
              x \notin NodesWith("type", "root") /\ x \notin NodesWith("depth", h)
                  => x \in NodesWith("type", "intermediate")

C1_Witness ==
    /\ Returned("k_ary_tree")
    /\ k = 3
    /\ h = 2
    /\ Cardinality(NodesWith("type", "leaf")) = 9
    /\ Cardinality(NodesWith("type", "intermediate")) = 3

\* C2: when dumbbell_topology(m1, m2) returns, the nodes are exactly
\* 0..2*m1+m2-1; exactly 0..m1-1 are tagged left_bell and exactly
\* m1+m2..2*m1+m2-1 right_bell; every node m1..m1+m2-1 is tagged core; each
\* left_bell node has exactly one edge, to m1, tagged left_bell, and these
\* are all the edges among the left_bell nodes and the hub m1.
C2_DumbbellLayout ==
    Returned("dumbbell") =>
        LET left == 0..(m1 - 1)
        IN  /\ nodes = 0..(2 * m1 + m2 - 1)
            /\ NodesWith("type", "left_bell") = left
            /\ NodesWith("type", "right_bell") = (m1 + m2)..(2 * m1 + m2 - 1)
            /\ (m1..(m1 + m2 - 1)) \subseteq NodesWith("type", "core")
            /\ \A x \in left :
                  /\ Adj(edges, x) = {m1}
                  /\ <<x, m1>> \in EdgesTagged("left_bell")
                  /\ <<m1, x>> \in EdgesTagged("left_bell")
            /\ {e \in edges : e[1] \in left \cup {m1} /\ e[2] \in left \cup {m1}}
                  = UNION {Sym(x, m1) : x \in left}

C2_Witness ==
    /\ Returned("dumbbell")
    /\ m1 = 3
    /\ m2 = 1
    /\ Cardinality(nodes) = 7
    /\ Adj(edges, 3) = {0, 1, 2, 4, 5, 6}

\* C3: when chord_topology(m, r) returns, the nodes are exactly 0..2^m-1
\* and for every node x and bit b in 0..m-1 the directed edge
\* x -> (x + 2^b) mod 2^m is in the graph.
C3_FingerEdges ==
    Returned("chord") =>
        /\ nodes = 0..(Pow(2, m) - 1)
        /\ \A x \in nodes : \A b \in 0..(m - 1) :
              <<x, (x + Pow(2, b)) % Pow(2, m)>> \in edges

C3_Witness ==
    /\ Returned("chord")
    /\ m = 2
    /\ r = 1
    /\ Adj(edges, 0) = {1, 2}
    /\ Adj(edges, 3) = {0, 1}

\* C4, as claimed: when chord_topology(m, r) returns, every node has
\* out-degree exactly m when r <= 2 and exactly m + (r - 2) when r > 2.
C4_OutDegreeAsClaimed ==
    Returned("chord") =>
        \A x \in nodes :
            Cardinality(Adj(edges, x)) = IF r <= 2 THEN m ELSE m + (r - 2)

\* C4, amended: when chord_topology(m, r) returns, the successors of every
\* node x are exactly (x + o) mod 2^m for o a finger offset 2^b, b in
\* 0..m-1, or o in 3..r; the out-degree is m when r <= 2, and when r > 2 it
\* is m + (r - 2) less the number of finger offsets 2^b that lie in 3..r.
C4_OutDegree ==
    Returned("chord") =>
        LET fingers == {Pow(2, b) : b \in 0..(m - 1)}
            shared == {o \in fingers : 3 <= o /\ o <= r}
        IN  \A x \in nodes :
                /\ Adj(edges, x) = {(x + o) % Pow(2, m) : o \in fingers \cup (3..r)}
                /\ Cardinality(Adj(edges, x)) =
                      IF r <= 2 THEN m ELSE m + (r - 2) - Cardinality(shared)

C4_Witness ==
    /\ Returned("chord")
    /\ m = 3
    /\ r = 4
    /\ Adj(edges, 6) = {7, 0, 1, 2}

\* the two bells are joined by a path that uses no edge tagged core
BellsJoined ==
    \E a \in NodesWith("type", "left_bell") :
        NodesWith("type", "right_bell")
            \cap ReachVia(edges \ EdgesTagged("core"), {a}) # {}

\* C5, as claimed: when dumbbell_topology(m1, m2) returns, for every valid
\* m1 and m2, m2 = 1 included, no path without core-tagged edges joins a
\* left_bell node to a right_bell node.
C5_CoreCutAsClaimed == Returned("dumbbell") => ~BellsJoined

\* C5, amended: when dumbbell_topology(m1, m2) returns with m2 >= 2, no path
\* without core-tagged edges joins a left_bell node to a right_bell node;
\* with m2 = 1 no edge is tagged core and every left_bell node is joined to
\* every right_bell node through the shared hub m1.
C5_CoreCut ==
    Returned("dumbbell") =>
        /\ m2 >= 2 => EdgesTagged("core") # {} /\ ~BellsJoined
        /\ m2 = 1 =>
              /\ EdgesTagged("core") = {}
              /\ \A a \in NodesWith("type", "left_bell") :
                    \A b \in NodesWith("type", "right_bell") :
                        <<a, m1>> \in edges /\ <<m1, b>> \in edges

C5_Witness ==
    /\ Returned("dumbbell")
    /\ m1 = 2
    /\ m2 = 3
    /\ EdgesTagged("core") = Sym(2, 3) \cup Sym(3, 4)
    /\ ReachVia(edges \ EdgesTagged("core"), {0}) = {0, 1, 2}

\* C6, as claimed: when ring_topology(n) returns, for every n >= 1, the
\* graph has exactly the n nodes 0..n-1, is connected, every node has degree
\* 2 and there are exactly n edges.
C6_RingAsClaimed ==
    Returned("ring") =>
        /\ nodes = 0..(n - 1)
        /\ Connected
        /\ \A x \in nodes : Degree(x) = 2
        /\ NumEdges = n

\* C6, amended: when ring_topology(n) returns, the graph has exactly the n
\* nodes 0..n-1, is connected and holds the edge n-1 - 0; for n # 2 every
\* node has degree 2 (the self-loop of n = 1 counting twice) and there are
\* n edges; for n = 2 there is the single edge 0 - 1 and both nodes have
\* degree 1.
C6_Ring ==
    Returned("ring") =>
        /\ nodes = 0..(n - 1)
        /\ Connected
        /\ <<n - 1, 0>> \in edges
        /\ n # 2 => NumEdges = n /\ \A x \in nodes : Degree(x) = 2
        /\ n = 2 => NumEdges = 1 /\ \A x \in nodes : Degree(x) = 1

C6_Witness ==
    /\ Returned("ring")
    /\ n = 4
    /\ <<3, 0>> \in edges
    /\ NumEdges = 4

\* every argument is an int
AllInt == \A i \in DOMAIN args : args[i].kind = "int"

\* the int arguments are in the range of the generator's family
InRange ==
    CASE fn \in NGenerators -> n >= 1
      [] fn = "k_ary_tree"  -> k > 1 /\ h >= 1
      [] fn = "dumbbell"    -> m1 >= 2 /\ m2 >= 1
      [] fn = "chord"       -> m >= 2 /\ r >= 1 /\ r <= Pow(2, m) - 1

RECURSIVE GreedyHops(_, _, _)
GreedyHops(a, b, fuel) ==
    IF a = b THEN 0
    ELSE IF fuel = 0 THEN m + 1
    ELSE LET dist == (b - a) % Pow(2, m)
             big == CHOOSE x \in 0..(m - 1) :
                        /\ Pow(2, x) <= dist
                        /\ \A y \in 0..(m - 1) : Pow(2, y) <= dist => y <= x
             nxt == (a + Pow(2, big)) % Pow(2, m)
         IN  IF <<a, nxt>> \in edges
             THEN 1 + GreedyHops(nxt, b, fuel - 1)
             ELSE m + 1

\* C8: when chord_topology(m, r) returns, greedy forwarding over finger
\* edges takes every node to every other node in at most m hops.
C8_GreedyRouting ==
    Returned("chord") =>
        /\ nodes = 0..(Pow(2, m) - 1)
        /\ \A a \in nodes : \A b \in nodes : GreedyHops(a, b, m) <= m

C8_Witness ==
    /\ Returned("chord")
    /\ m = 3
    /\ GreedyHops(1, 0, m) = 3

\* the name a generator is to give its graph
ExpectedName ==
    CASE fn \in NGenerators -> fn \o "_topology(" \o Fmt(n) \o ")"
      [] fn = "k_ary_tree"  ->
            "k_ary_tree_topology(" \o Fmt(k) \o "," \o Fmt(h) \o ")"
      [] fn = "dumbbell"    ->
            "dumbbell_topology(" \o Fmt(m1) \o "," \o Fmt(m2) \o ")"
      [] fn = "chord"       ->
            "chord_topology(" \o Fmt(m) \o "," \o Fmt(r) \o ")"

\* C9: every generator that returns has set the graph's name to the string
\* encoding the generator and its parameters; every generator but chord has
\* set the graph-level type key to its family tag, chord sets no type key,
\* and the tree records k and h.
C9_NameAndType ==
    outcome = "returned" =>
        /\ name = ExpectedName
        /\ IF fn = "chord"
           THEN "type" \notin DOMAIN graph
           ELSE /\ "type" \in DOMAIN graph
                /\ graph["type"] = (IF fn = "k_ary_tree" THEN "tree" ELSE fn)
        /\ fn = "k_ary_tree" =>
              /\ DOMAIN graph = {"type", "k", "h"}
              /\ graph["k"] = k
              /\ graph["h"] = h

\* C10: no attribute write of star, k_ary_tree or dumbbell raises KeyError:
\* at every position whose next statement writes G.node[x], x is a node of
\* G; the tree's sweep writes no node beyond the last id of the balanced
\* tree.
C10_WritesHitNodes ==
    /\ outcome # "KeyError"
    /\ pc \in {"star_root", "tree_root"} => 0 \in nodes
    /\ pc = "star_leaf" /\ v < n + 1 => v \in nodes
    /\ pc = "tree_sweep" /\ depth < h + 1 =>
          v \in nodes /\ v <= balanced_tree_size(k, h) - 1
    /\ pc = "tree_sweep" /\ ~(depth < h + 1) => v = balanced_tree_size(k, h)
    /\ pc = "path_node" => v \in nodes
    /\ pc = "last_core" => m1 + m2 - 1 \in nodes

C10_Witness ==
    /\ fn = "k_ary_tree"
    /\ pc = "tree_sweep"
    /\ depth = h
    /\ h = 3
    /\ v = balanced_tree_size(k, h) - 1
    /\ v \in nodes
====
